---- MODULE Spec2Model ----
(***************************************************************************)
(* CodeGraph: ProjectAnalyzer (analyzer.py) scans a project directory,     *)
(* parses every .py file and records its imports, imported names,          *)
(* functions and classes; GraphVisualizer (visualizer.py) turns that map   *)
(* into a pyvis network of file / class / method / function nodes.         *)
(*                                                                         *)
(* Strings are kept as strings: a dotted name is "os.path", a relative     *)
(* path is "pkg/b.py", a node id is "a.py::C::m".  str.split, basename and *)
(* dirname are the inverses of the joins over the finite universe of       *)
(* names the model uses.                                                   *)
(***************************************************************************)
EXTENDS Integers, Sequences, FiniteSets, TLC

VARIABLES rootExists, tree, include_external, dependencies, calls, history, graph

vars == <<rootExists, tree, include_external, dependencies, calls, history, graph>>

(***************************************************************************)
(* Bounds of the model.                                                    *)
(***************************************************************************)
MaxFiles == 3
MaxCalls == 2

(***************************************************************************)
(* Sequence helpers.                                                       *)
(***************************************************************************)
Range(s) == {s[i] : i \in 1..Len(s)}

Last(s) == s[Len(s)]

Perms(S) == {s \in [1..Cardinality(S) -> S] : Range(s) = S}

(***************************************************************************)
(* Strings.  Join puts a separator between segments; Split is str.split    *)
(* on the strings the model can hold.                                      *)
(***************************************************************************)
RECURSIVE Join(_, _)
Join(segs, sep) ==
    IF Len(segs) = 0 THEN ""
    ELSE IF Len(segs) = 1 THEN segs[1]
    ELSE segs[1] \o sep \o Join(Tail(segs), sep)

Idents == {"b", "os", "path", "sub", "x", "y"}

DottedSegs == {<<i>> : i \in Idents} \cup {<<i, j>> : i, j \in Idents}
                \cup {<<i, j, k>> : i \in {"os"}, j \in {"path"}, k \in Idents}

DottedTable == [s \in {Join(d, ".") : d \in DottedSegs} |->
                   CHOOSE d \in DottedSegs : Join(d, ".") = s]

\* name.split('.')
SplitDots(name) == DottedTable[name]

DirNames == {"", "b", "pkg"}

BaseNames == {"a.py", "b.py", "c.py", "__init__.py", "app.js", "os.py", "path.py"}

\* os.path.join(dir, name), relative to the project root ("" is the root)
PathJoin(dir, name) == IF dir = "" THEN name ELSE dir \o "/" \o name

PathTable == [p \in {PathJoin(d, n) : d \in DirNames, n \in BaseNames} |->
                 CHOOSE dn \in DirNames \X BaseNames : PathJoin(dn[1], dn[2]) = p]

\* os.path.dirname / os.path.basename
Dirname(p) == PathTable[p][1]

Basename(p) == PathTable[p][2]

\* the (string, suffix) pairs of the names and extensions the model uses
SuffixTable ==
    {<<PathJoin(d, stem \o ext), ext>> :
        d \in DirNames, stem \in {"a", "b", "c", "__init__", "app", "os", "path"},
        ext \in {".py", ".js", ".html", ".css"}}

\* str.endswith, for a path or a file name and an extension
EndsWith(name, ext) == <<name, ext>> \in SuffixTable

(***************************************************************************)
(* Syntax trees (the ast module's nodes the analyzer looks at).            *)
(***************************************************************************)
Module(body) == [type |-> "Module", body |-> body]

\* import n1, n2, ...   (names are dotted strings)
Import(names) == [type |-> "Import", names |-> names]

\* from module import n1, n2, ...   (module "" is None: from . import n)
ImportFrom(module, names) == [type |-> "ImportFrom", module |-> module, names |-> names]

FunctionDef(name, lineno, args, body) ==
    [type |-> "FunctionDef", name |-> name, lineno |-> lineno, args |-> args, body |-> body]

ClassDef(name, body) == [type |-> "ClassDef", name |-> name, body |-> body]

Pass == [type |-> "Pass"]

\* ast.iter_child_nodes, restricted to statements
Children(node) ==
    IF node.type \in {"Module", "FunctionDef", "ClassDef"} THEN node.body ELSE <<>>

\* ast.walk: breadth-first, the queue starts with the root
RECURSIVE Walk(_)
Walk(todo) ==
    IF todo = <<>> THEN <<>>
    ELSE <<Head(todo)>> \o Walk(Tail(todo) \o Children(Head(todo)))

AstWalk(root) == Walk(<<root>>)

(***************************************************************************)
(* File contents, and ast.parse on them: a Module, or a SyntaxError.       *)
(***************************************************************************)
TextEmpty == ""

TextImportB == "import b"

TextFromB == "from b import x\nfrom os import path\nfrom . import y"

TextDotted == "import b.sub\nimport os.path\nfrom b import x"

TextShapes ==
    "class C:\n  def m1(self): pass\n\n  def m2(self, x): pass\n\n\ndef f(y): pass"

TextClash ==
    "class A:\n  pass\n\ndef A():\n  def g(): pass\n\n\ndef h():\n  def g(x): pass"

TextNested ==
    "class Outer:\n  class Inner:\n    def im(self): pass\n\n  def om(self, x): pass"

TextInvalid == "def (:"

SyntaxError == [type |-> "SyntaxError"]

Parse(text) ==
    CASE text = TextEmpty -> Module(<<>>)
      [] text = TextImportB -> Module(<<Import(<<"b">>)>>)
      [] text = TextFromB ->
            Module(<<ImportFrom("b", <<"x">>), ImportFrom("os", <<"path">>),
                     ImportFrom("", <<"y">>)>>)
      [] text = TextDotted ->
            Module(<<Import(<<"b.sub">>), Import(<<"os.path">>), ImportFrom("b", <<"x">>)>>)
      [] text = TextShapes ->
            Module(<<ClassDef("C", <<FunctionDef("m1", 2, <<"self">>, <<Pass>>),
                                     FunctionDef("m2", 4, <<"self", "x">>, <<Pass>>)>>),
                     FunctionDef("f", 7, <<"y">>, <<Pass>>)>>)
      [] text = TextClash ->
            Module(<<ClassDef("A", <<Pass>>),
                     FunctionDef("A", 4, <<>>, <<FunctionDef("g", 5, <<>>, <<Pass>>)>>),
                     FunctionDef("h", 8, <<>>, <<FunctionDef("g", 9, <<"x">>, <<Pass>>)>>)>>)
      [] text = TextNested ->
            Module(<<ClassDef("Outer",
                        <<ClassDef("Inner", <<FunctionDef("im", 3, <<"self">>, <<Pass>>)>>),
                          FunctionDef("om", 5, <<"self", "x">>, <<Pass>>)>>)>>)
      [] OTHER -> SyntaxError

\* the files a project may hold, and what each may contain
Options ==
    [p \in {"a.py", "b.py", "b/__init__.py", "pkg/c.py", "pkg/b.py", "app.js"} |->
        CASE p = "a.py" -> {TextImportB, TextFromB, TextShapes, TextInvalid}
          [] p = "b.py" -> {TextEmpty, TextClash, TextInvalid}
          [] p = "b/__init__.py" -> {TextEmpty}
          [] p = "pkg/c.py" -> {TextDotted, TextFromB}
          [] p = "pkg/b.py" -> {TextEmpty, TextNested}
          [] p = "app.js" -> {TextInvalid}]

Paths == DOMAIN Options

(***************************************************************************)
(* The file system under the project root: tree maps each existing file    *)
(* (path relative to the root) to its text.                                *)
(***************************************************************************)
NoFiles == [p \in {} |-> TextEmpty]

Trees == {t \in UNION {[S -> UNION {Options[p] : p \in Paths}] :
                            S \in {S \in SUBSET Paths : Cardinality(S) <= MaxFiles}} :
             \A p \in DOMAIN t : t[p] \in Options[p]}

\* os.path.exists
Exists(t, p) == p \in DOMAIN t \/ p \in {Dirname(f) : f \in DOMAIN t}

\* os.walk(project_path): top-down, the root's files first, then one
\* directory after the other, each listing in the file system's order; a
\* missing root yields nothing (os.walk swallows the listing error)
WalkOrders(root, t) ==
    IF ~root THEN {<<>>}
    ELSE {s \in Perms(DOMAIN t) :
             \A i, j \in 1..Len(s) : i < j =>
                 /\ Dirname(s[j]) = "" => Dirname(s[i]) = ""
                 /\ Dirname(s[i]) = Dirname(s[j]) =>
                        \A k \in i..j : Dirname(s[k]) = Dirname(s[i])}

(***************************************************************************)
(* ProjectAnalyzer                                                         *)
(***************************************************************************)
file_extensions == <<".py", ".js", ".html", ".css">>

\* list(a_set): every element once, in the set's iteration order
RECURSIVE SetToList(_)
SetToList(S) ==
    IF S = {} THEN <<>>
    ELSE LET x == CHOOSE x \in S : TRUE IN <<x>> \o SetToList(S \ {x})

\* dict[key] = value: a new key goes last, a known key keeps its place
DictSet(d, key, value) ==
    IF \E i \in 1..Len(d) : d[i].path = key
    THEN [i \in 1..Len(d) |-> IF d[i].path = key THEN value ELSE d[i]]
    ELSE Append(d, value)

Keys(d) == {d[i].path : i \in 1..Len(d)}

Entry(d, key) == d[CHOOSE i \in 1..Len(d) : d[i].path = key]

get_function_args(node) == node.args

\* a faulty variant: only the definitions at module level are collected
get_functions_top_level(ast) ==
    LET defs == SelectSeq(ast.body, LAMBDA n : n.type = "FunctionDef")
    IN  [i \in 1..Len(defs) |->
            [name |-> defs[i].name, lineno |-> defs[i].lineno, args |-> defs[i].args]]

get_functions(ast) ==
    LET defs == SelectSeq(AstWalk(ast), LAMBDA n : n.type = "FunctionDef")
    IN  [i \in 1..Len(defs) |->
            [name |-> defs[i].name, lineno |-> defs[i].lineno, args |-> defs[i].args]]

get_classes(ast) ==
    LET cls == SelectSeq(AstWalk(ast), LAMBDA n : n.type = "ClassDef")
        methods(c) ==
            LET ms == SelectSeq(c.body, LAMBDA n : n.type = "FunctionDef")
            IN  [i \in 1..Len(ms) |-> [name |-> ms[i].name, args |-> get_function_args(ms[i])]]
    IN  [i \in 1..Len(cls) |-> [name |-> cls[i].name, methods |-> methods(cls[i])]]

\* the module names an import statement adds to `imports`
StmtImports(node) ==
    IF node.type = "Import"
    THEN {Head(SplitDots(n)) : n \in Range(node.names)}
    ELSE IF node.type = "ImportFrom" /\ node.module # ""
    THEN {Head(SplitDots(node.module))}
    ELSE {}

\* the entries an `import ...` statement adds to `imported_names`
ImportStmtNames(node) == Range(node.names)

\* the entries a `from m import ...` statement adds to `imported_names`
FromStmtNames(node) ==
    IF node.module # ""
    THEN {Head(SplitDots(node.module)) \o "." \o n : n \in Range(node.names)}
    ELSE {}

StmtNames(node) ==
    IF node.type = "Import" THEN ImportStmtNames(node)
    ELSE IF node.type = "ImportFrom" THEN FromStmtNames(node)
    ELSE {}

RawImports(ast) == UNION {StmtImports(n) : n \in Range(AstWalk(ast))}

RawNames(ast) == UNION {StmtNames(n) : n \in Range(AstWalk(ast))}

\* a faulty variant: the sibling candidate is looked up under the project root
possible_paths_root_only(imp, file_path) ==
    <<PathJoin("", imp \o ".py"),
      PathJoin(imp, "__init__.py"),
      PathJoin("", imp \o ".py")>>

possible_paths(imp, file_path) ==
    <<PathJoin("", imp \o ".py"),
      PathJoin(imp, "__init__.py"),
      PathJoin(Dirname(file_path), imp \o ".py")>>

IsLocal(t, imp, file_path) ==
    \E i \in 1..3 : Exists(t, possible_paths(imp, file_path)[i])

local_imports(t, imports, file_path) == {imp \in imports : IsLocal(t, imp, file_path)}

\* a faulty variant: the names are not pruned with their modules
local_names_unpruned(names, locals) == names

local_names(names, locals) ==
    {name \in names : \E imp \in locals : Head(SplitDots(name)) = imp}

\* a faulty variant: the flag is read the wrong way round
FilterImportsInverted(t, ie, imports, file_path) ==
    IF ie THEN local_imports(t, imports, file_path) ELSE imports

FilterImports(t, ie, imports, file_path) ==
    IF ~ie THEN local_imports(t, imports, file_path) ELSE imports

FilterNames(t, ie, imports, names, file_path) ==
    IF ~ie THEN local_names(names, local_imports(t, imports, file_path)) ELSE names

\* what a call leaves behind: the dict, and whether an exception left it
Done(deps) == [deps |-> deps, exc |-> FALSE]

Raised(deps) == [deps |-> deps, exc |-> TRUE]

\* what the walks over a parsed file collect, worked out once per text
Collected ==
    [text \in UNION {Options[p] : p \in Paths} |->
        LET ast == Parse(text)
        IN  IF ast = SyntaxError
            THEN [parsed |-> FALSE, imports |-> {}, imported_names |-> {},
                  functions |-> <<>>, classes |-> <<>>]
            ELSE [parsed |-> TRUE, imports |-> RawImports(ast), imported_names |-> RawNames(ast),
                  functions |-> get_functions(ast), classes |-> get_classes(ast)]]

\* self.dependencies[relative_path] = {...}
StoreEntry(deps, t, ie, path, found) ==
    DictSet(deps, path,
        [path |-> path,
         imports |-> SetToList(FilterImports(t, ie, found.imports, path)),
         imported_names |->
             SetToList(FilterNames(t, ie, found.imports, found.imported_names, path)),
         functions |-> found.functions,
         classes |-> found.classes])

\* a faulty variant: the entry is stored although the file did not parse
ParseAndStoreAnyway(deps, t, ie, path) ==
    IF ~Collected[t[path]].parsed
    THEN Raised(StoreEntry(deps, t, ie, path, Collected[t[path]]))
    ELSE Done(StoreEntry(deps, t, ie, path, Collected[t[path]]))

\* the try block of _analyze_python_file: ast.parse raises SyntaxError
\* before anything is written; otherwise the file's entry is stored
ParseAndStore(deps, t, ie, path) ==
    IF ~Collected[t[path]].parsed THEN Raised(deps)
    ELSE Done(StoreEntry(deps, t, ie, path, Collected[t[path]]))

\* except Exception: the error is logged
analyze_python_file(deps, t, ie, path) == Done(ParseAndStore(deps, t, ie, path).deps)

analyze_file(deps, t, ie, path) ==
    LET r == IF EndsWith(path, ".py") THEN analyze_python_file(deps, t, ie, path)
             ELSE Done(deps)
    IN  Done(r.deps)

MatchesExtension(file) ==
    \E i \in 1..Len(file_extensions) : EndsWith(Basename(file), file_extensions[i])

\* the loop of _scan_directory over the files os.walk yields; an exception
\* that reaches the loop ends it
RECURSIVE ScanLoop(_, _, _, _)
ScanLoop(deps, t, ie, order) ==
    IF order = <<>> THEN Done(deps)
    ELSE LET r == IF MatchesExtension(Head(order)) THEN analyze_file(deps, t, ie, Head(order))
                  ELSE Done(deps)
         IN  IF r.exc THEN r ELSE ScanLoop(r.deps, t, ie, Tail(order))

\* except Exception around the walk: the error is logged
scan_directory(deps, t, ie, order) == Done(ScanLoop(deps, t, ie, order).deps)

\* a faulty variant: the map of the previous call is kept
KeepDependencies(deps) == deps

\* self.dependencies = {} at the start of analyze()
ResetDependencies(deps) == <<>>

analyze(deps, t, ie, order) == scan_directory(ResetDependencies(deps), t, ie, order)

(***************************************************************************)
(* GraphVisualizer.  The pyvis Network is undirected: add_node ignores an  *)
(* id it already holds, add_edge asserts both ends are nodes and ignores   *)
(* an edge between two nodes that are already joined.  g.error records an  *)
(* exception that leaves create_graph.                                     *)
(***************************************************************************)
NewNetwork == [nodes |-> <<>>, edges |-> <<>>, error |-> FALSE]

NodeIds(g) == {g.nodes[i].id : i \in 1..Len(g.nodes)}

add_node(g, id, group) ==
    IF g.error \/ id \in NodeIds(g) THEN g
    ELSE [g EXCEPT !.nodes = Append(@, [id |-> id, group |-> group])]

add_edge(g, source, to, color, title) ==
    IF g.error THEN g
    ELSE IF source \notin NodeIds(g) \/ to \notin NodeIds(g) THEN [g EXCEPT !.error = TRUE]
    ELSE IF \E i \in 1..Len(g.edges) :
                \/ g.edges[i].from = source /\ g.edges[i].to = to
                \/ g.edges[i].from = to /\ g.edges[i].to = source
    THEN g
    ELSE [g EXCEPT !.edges = Append(@, [from |-> source, to |-> to,
                                        color |-> color, title |-> title])]

\* the first key, in the dict's order, whose basename is module.py ("" is None)
FindTarget(deps, module) ==
    LET hits == {i \in 1..Len(deps) : Basename(deps[i].path) = module \o ".py"}
    IN  IF hits = {} THEN ""
        ELSE deps[CHOOSE i \in hits : \A j \in hits : i <= j].path

RECURSIVE AddFileNodes(_, _)
AddFileNodes(g, entries) ==
    IF entries = <<>> THEN g
    ELSE AddFileNodes(add_node(g, Head(entries).path, "files"), Tail(entries))

RECURSIVE AddImportEdges(_, _, _, _)
AddImportEdges(g, deps, file_path, imports) ==
    IF imports = <<>> \/ g.error THEN g
    ELSE LET target_file == FindTarget(deps, Head(imports))
             g1 == IF target_file # "" THEN add_edge(g, file_path, target_file, "blue", "")
                   ELSE g
         IN  AddImportEdges(g1, deps, file_path, Tail(imports))

\* module_name, item_name = imported_name.split('.') raises ValueError
\* unless there are exactly two parts
NameEdge(g, deps, file_path, imported_name) ==
    LET parts == SplitDots(imported_name)
    IN  IF Len(parts) # 2 THEN [g EXCEPT !.error = TRUE]
        ELSE LET target_file == FindTarget(deps, parts[1])
             IN  IF target_file # ""
                 THEN add_edge(g, file_path, target_file, "blue", "imports " \o parts[2])
                 ELSE g

RECURSIVE AddNameEdges(_, _, _, _)
AddNameEdges(g, deps, file_path, names) ==
    IF names = <<>> \/ g.error THEN g
    ELSE AddNameEdges(NameEdge(g, deps, file_path, Head(names)), deps, file_path, Tail(names))

ClassId(file_path, class_name) == file_path \o "::" \o class_name

MethodId(class_id, method_name) == class_id \o "::" \o method_name

FuncId(file_path, func_name) == file_path \o "::" \o func_name

RECURSIVE AddMethods(_, _, _)
AddMethods(g, class_id, methods) ==
    IF methods = <<>> \/ g.error THEN g
    ELSE LET method_id == MethodId(class_id, Head(methods).name)
         IN  AddMethods(add_edge(add_node(g, method_id, "methods"), class_id, method_id, "", ""),
                        class_id, Tail(methods))

RECURSIVE AddClasses(_, _, _)
AddClasses(g, file_path, classes) ==
    IF classes = <<>> \/ g.error THEN g
    ELSE LET class_id == ClassId(file_path, Head(classes).name)
             g1 == add_edge(add_node(g, class_id, "classes"), file_path, class_id, "", "")
         IN  AddClasses(AddMethods(g1, class_id, Head(classes).methods), file_path, Tail(classes))

RECURSIVE AddFunctions(_, _, _)
AddFunctions(g, file_path, functions) ==
    IF functions = <<>> \/ g.error THEN g
    ELSE LET func_id == FuncId(file_path, Head(functions).name)
         IN  AddFunctions(add_edge(add_node(g, func_id, "functions"), file_path, func_id, "", ""),
                          file_path, Tail(functions))

\* the body of the second loop of create_graph, for one file
AddFile(g, deps, data) ==
    LET g1 == AddImportEdges(g, deps, data.path, data.imports)
        g2 == AddNameEdges(g1, deps, data.path, data.imported_names)
        g3 == AddClasses(g2, data.path, data.classes)
    IN  AddFunctions(g3, data.path, data.functions)

RECURSIVE AddFiles(_, _, _)
AddFiles(g, deps, entries) ==
    IF entries = <<>> \/ g.error THEN g
    ELSE AddFiles(AddFile(g, deps, Head(entries)), deps, Tail(entries))

create_graph(g, deps) == AddFiles(AddFileNodes(g, deps), deps, deps)

(***************************************************************************)
(* The state machine.  calls counts the analyze() calls made.  history     *)
(* records the latest calls: the tree each saw, the analyzer's flag, how   *)
(* the call ended and the map it returned.  It holds the last call, and    *)
(* the one before it when both saw the same project.                       *)
(***************************************************************************)
NoVisualizer == [state |-> "none", dependencies |-> <<>>, nodes |-> <<>>, edges |-> <<>>]

Record(h, call) ==
    IF h # <<>> /\ Last(h).tree = call.tree /\ Last(h).root = call.root
    THEN <<Last(h), call>>
    ELSE <<call>>

Init ==
    /\ rootExists \in BOOLEAN
    /\ tree \in (IF rootExists THEN Trees ELSE {NoFiles})
    /\ include_external \in BOOLEAN
    /\ dependencies = <<>>
    /\ calls = 0
    /\ history = <<>>
    /\ graph = NoVisualizer

\* a further ProjectAnalyzer(project_path, include_external=ie), with the
\* other flag, once the analyzer at hand has been used
Construct(ie) ==
    /\ 0 < calls /\ calls < MaxCalls /\ graph.state = "none"
    /\ ie # include_external /\ Last(history).ie = include_external
    /\ include_external' = ie
    /\ dependencies' = <<>>
    /\ UNCHANGED <<rootExists, tree, calls, history, graph>>

\* analyzer.analyze(): returns self.dependencies unless an exception leaves it
Analyze ==
    /\ calls < MaxCalls /\ graph.state = "none"
    /\ \E order \in WalkOrders(rootExists, tree) :
          LET r == analyze(dependencies, tree, include_external, order)
          IN  /\ dependencies' = r.deps
              /\ history' = Record(history,
                     [root |-> rootExists, tree |-> tree, ie |-> include_external,
                      outcome |-> IF r.exc THEN "raised" ELSE "returned",
                      result |-> r.deps])
    /\ calls' = calls + 1
    /\ UNCHANGED <<rootExists, tree, include_external, graph>>

\* main(): GraphVisualizer(dependencies) on the map analyze() returned
NewVisualizer ==
    /\ calls = 1 /\ graph.state = "none"
    /\ Last(history).outcome = "returned"
    /\ graph' = [state |-> "new", dependencies |-> Last(history).result,
                 nodes |-> <<>>, edges |-> <<>>]
    /\ UNCHANGED <<rootExists, tree, include_external, dependencies, calls, history>>

\* visualizer.create_graph(): "failed" when an exception leaves it
CreateGraph ==
    /\ graph.state = "new"
    /\ LET g == create_graph(NewNetwork, graph.dependencies)
       IN  graph' = [graph EXCEPT !.state = IF g.error THEN "failed" ELSE "built",
                                  !.nodes = g.nodes, !.edges = g.edges]
    /\ UNCHANGED <<rootExists, tree, include_external, dependencies, calls, history>>

(***************************************************************************)
(* The project changes between two calls of analyze(): one change each     *)
(* time.                                                                   *)
(***************************************************************************)
MayChange ==
    /\ 0 < calls /\ calls < MaxCalls /\ graph.state = "none"
    /\ tree = Last(history).tree /\ rootExists = Last(history).root

Changed(t, root) ==
    /\ tree' = t
    /\ rootExists' = root
    /\ history' = <<Last(history)>>
    /\ UNCHANGED <<include_external, dependencies, calls, graph>>

CreateFile(p, c) ==
    /\ MayChange /\ rootExists
    /\ p \notin DOMAIN tree /\ Cardinality(DOMAIN tree) < MaxFiles
    /\ Changed([q \in DOMAIN tree \cup {p} |-> IF q = p THEN c ELSE tree[q]], TRUE)

WriteFile(p, c) ==
    /\ MayChange
    /\ p \in DOMAIN tree /\ c # tree[p]
    /\ Changed([tree EXCEPT ![p] = c], TRUE)

DeleteFile(p) ==
    /\ MayChange
    /\ p \in DOMAIN tree
    /\ Changed([q \in DOMAIN tree \ {p} |-> tree[q]], TRUE)

DeleteRoot ==
    /\ MayChange /\ rootExists
    /\ Changed(NoFiles, FALSE)

CreateRoot ==
    /\ MayChange /\ ~rootExists
    /\ Changed(NoFiles, TRUE)

Next ==
    \/ \E ie \in BOOLEAN : Construct(ie)
    \/ Analyze
    \/ NewVisualizer
    \/ CreateGraph
    \/ \E p \in Paths : \E c \in Options[p] : CreateFile(p, c)
    \/ \E p \in Paths : \E c \in Options[p] : WriteFile(p, c)
    \/ \E p \in Paths : DeleteFile(p)
    \/ DeleteRoot
    \/ CreateRoot

Spec == Init /\ [][Next]_vars

(***************************************************************************)
(* Properties.                                                             *)
(***************************************************************************)
Calls == Range(history)

Entries(call) == Range(call.result)

\* the .py files of a tree that parse, and those that do not
ParsablePy(t) == {p \in DOMAIN t : EndsWith(p, ".py") /\ Parse(t[p]) # SyntaxError}

UnparsablePy(t) == {p \in DOMAIN t : EndsWith(p, ".py") /\ Parse(t[p]) = SyntaxError}

\* the part of a dotted name before its first dot
Prefix(name) == Head(SplitDots(name))

\* C1: after analyze() with include_external=False, every entry of a file's
\* imported_names has its first dotted segment in that file's imports.
C1_NamesHaveTheirModule ==
    \A call \in Calls : ~call.ie =>
        \A e \in Entries(call) :
            \A name \in Range(e.imported_names) : Prefix(name) \in Range(e.imports)

\* a file kept one imported name and lost another, with include_external=False
C1_Witness ==
    \E call \in Calls : ~call.ie /\
        \E e \in Entries(call) :
            /\ e.imported_names # <<>>
            /\ Range(e.imported_names) # RawNames(Parse(call.tree[e.path]))

\* C2: with one syntax-invalid .py file among N valid ones, analyze() returns
\* and the map holds exactly the N valid files, the invalid one not at all.
C2_InvalidFileIsLeftOut ==
    \A call \in Calls : Cardinality(UnparsablePy(call.tree)) = 1 =>
        /\ call.outcome = "returned"
        /\ Len(call.result) = Cardinality(ParsablePy(call.tree))
        /\ Keys(call.result) = ParsablePy(call.tree)

\* one invalid file next to two valid ones
C2_Witness ==
    \E call \in Calls :
        /\ Cardinality(UnparsablePy(call.tree)) = 1
        /\ Cardinality(ParsablePy(call.tree)) = 2
        /\ Len(call.result) = 2

\* C3 as claimed: analyze() on a root that does not exist raises to the caller.
C3_MissingRootRaises ==
    \A call \in Calls : ~call.root => call.outcome = "raised"

\* C3 as amended: analyze() on a root that does not exist returns normally,
\* with an empty map.
C3_MissingRootReturnsEmpty ==
    \A call \in Calls : ~call.root => call.outcome = "returned" /\ call.result = <<>>

\* a second call, made after the root was removed
C3_Witness ==
    calls = 2 /\ \E call \in Calls : ~call.root /\ call.outcome = "returned"

(***************************************************************************)
(* The graph.  An imports edge is one create_graph colours blue; a         *)
(* contains edge carries no colour.                                        *)
(***************************************************************************)
GraphDone == graph.state \in {"built", "failed"}

ImportsEdges == {e \in Range(graph.edges) : e.color = "blue"}

ContainsEdges == {e \in Range(graph.edges) : e.color = ""}

NodesOf(group) == {n \in Range(graph.nodes) : n.group = group}

TwoFileProject == [p \in {"a.py", "b.py"} |-> IF p = "a.py" THEN TextImportB ELSE TextEmpty]

ShapesProject == [p \in {"a.py"} |-> TextShapes]

\* C4: a.py (import b) and b.py (empty), include_external=False: imports is
\* ["b"] for a.py and [] for b.py, and building the graph completes with
\* exactly one imports edge, from a.py to b.py.
C4_TwoFilesOneImportsEdge ==
    (GraphDone /\ Last(history).tree = TwoFileProject /\ ~Last(history).ie) =>
        /\ Entry(graph.dependencies, "a.py").imports = <<"b">>
        /\ Entry(graph.dependencies, "b.py").imports = <<>>
        /\ graph.state = "built"
        /\ \A e \in ImportsEdges : e.from = "a.py" /\ e.to = "b.py"
        /\ Cardinality(ImportsEdges) = 1

\* C5: a file with one class of two methods and one module-level function
\* gives one file node, one class node, two method nodes, one function node
\* and four contains edges.
C5_ShapesNodesAndEdges ==
    (GraphDone /\ Last(history).tree = ShapesProject) =>
        /\ graph.state = "built"
        /\ Cardinality(NodesOf("files")) = 1
        /\ Cardinality(NodesOf("classes")) = 1
        /\ Cardinality(NodesOf("methods")) = 2
        /\ Cardinality(NodesOf("functions")) = 1
        /\ Cardinality(ContainsEdges) = 4
        /\ Len(graph.edges) = 4

\* the declarations of an analysis result, each with the node id create_graph
\* gives it: classes, their methods, and the entries of the functions lists
Declarations(deps) ==
    UNION {
        {[decl |-> <<"class", i, c>>, id |-> ClassId(deps[i].path, deps[i].classes[c].name)] :
            c \in 1..Len(deps[i].classes)}
        \cup
        UNION {{[decl |-> <<"method", i, c, m>>,
                 id |-> MethodId(ClassId(deps[i].path, deps[i].classes[c].name),
                                 deps[i].classes[c].methods[m].name)] :
                   m \in 1..Len(deps[i].classes[c].methods)} : c \in 1..Len(deps[i].classes)}
        \cup
        {[decl |-> <<"function", i, f>>, id |-> FuncId(deps[i].path, deps[i].functions[f].name)] :
            f \in 1..Len(deps[i].functions)}
        : i \in 1..Len(deps)}

\* C6: in the graph built from an analysis result, no two distinct
\* declarations are mapped to the same node identifier.
C6_NodeIdDenotesOneDeclaration ==
    graph.state = "built" =>
        \A d1, d2 \in Declarations(graph.dependencies) :
            d1.id = d2.id => d1.decl = d2.decl

(***************************************************************************)
(* Calls compared.  Two calls in history saw the same tree.                *)
(***************************************************************************)
\* dict equality: the same keys with the same values, whatever the order
SameDict(d1, d2) ==
    /\ Keys(d1) = Keys(d2)
    /\ Len(d1) = Len(d2)
    /\ \A k \in Keys(d1) : Entry(d1, k) = Entry(d2, k)

\* C7: on the same tree, each file's imports and imported_names with
\* include_external=False are subsets of those with include_external=True.
C7_LocalWithinAll ==
    (Len(history) = 2 /\ history[1].ie # history[2].ie) =>
        LET loc == IF history[1].ie THEN history[2] ELSE history[1]
            all == IF history[1].ie THEN history[1] ELSE history[2]
        IN  /\ Keys(loc.result) = Keys(all.result)
            /\ \A e \in Entries(loc) :
                  /\ Range(e.imports) \subseteq Range(Entry(all.result, e.path).imports)
                  /\ Range(e.imported_names) \subseteq
                         Range(Entry(all.result, e.path).imported_names)

\* both flags were used on one tree and a file lost an import and a name
C7_Witness ==
    /\ Len(history) = 2 /\ history[1].ie # history[2].ie
    /\ \E e1 \in Entries(history[1]), e2 \in Entries(history[2]) :
          /\ e1.path = e2.path
          /\ Range(e1.imports) # Range(e2.imports)
          /\ Range(e1.imported_names) # Range(e2.imported_names)

\* C8: the result of analyze() depends on the tree at the time of the call
\* alone: it holds one entry for each currently parsable .py file and nothing
\* else, it is what a new analyzer returns on that tree, and two calls on an
\* unchanged tree return equal maps.
C8_ResultOfTheTreeAlone ==
    /\ \A call \in Calls :
          /\ Keys(call.result) = ParsablePy(call.tree)
          /\ Len(call.result) = Cardinality(ParsablePy(call.tree))
          /\ \E order \in WalkOrders(call.root, call.tree) :
                SameDict(call.result, analyze(<<>>, call.tree, call.ie, order).deps)
    /\ (Len(history) = 2 /\ history[1].ie = history[2].ie) =>
          SameDict(history[1].result, history[2].result)

\* a second call, made after the project changed
C8_Witness ==
    /\ calls = 2 /\ Len(history) = 1
    /\ tree = Last(history).tree
    /\ dependencies = Last(history).result
    /\ Last(history).result # <<>>

\* the entries the `from m import n` statements of a file stand for
FromNames(ast) ==
    UNION {FromStmtNames(n) : n \in {n \in Range(AstWalk(ast)) : n.type = "ImportFrom"}}

\* C9: every entry of imported_names is a module.symbol string that comes
\* from a `from X import Y` statement; a plain import adds none.
C9_NamesComeFromFromImports ==
    \A call \in Calls :
        \A e \in Entries(call) :
            \A name \in Range(e.imported_names) :
                /\ Len(SplitDots(name)) = 2
                /\ name \in FromNames(Parse(call.tree[e.path]))

\* the three places a module m imported by file f may be found
Candidates(f, m) ==
    {m \o ".py", m \o "/__init__.py",
     IF Dirname(f) = "" THEN m \o ".py" ELSE Dirname(f) \o "/" \o m \o ".py"}

\* C10: with include_external=False a module imported by f stays in f's
\* imports exactly when one of root/m.py, root/m/__init__.py, dir(f)/m.py
\* exists, and imported_names keeps exactly the entries of the modules that
\* stay; with include_external=True every import and every name stays.
C10_KeptIffCandidateExists ==
    \A call \in Calls :
        \A e \in Entries(call) :
            LET ast == Parse(call.tree[e.path])
                kept == Range(e.imports)
            IN  /\ Len(e.imports) = Cardinality(kept)
                /\ IF call.ie
                   THEN /\ kept = RawImports(ast)
                        /\ Range(e.imported_names) = RawNames(ast)
                   ELSE /\ kept = {m \in RawImports(ast) :
                                      Candidates(e.path, m) \cap DOMAIN call.tree # {}}
                        /\ Range(e.imported_names) =
                               {n \in RawNames(ast) : Prefix(n) \in kept}

\* pkg/c.py keeps b through pkg/b.py alone and loses os
C10_Witness ==
    \E call \in Calls :
        /\ ~call.ie
        /\ "pkg/b.py" \in DOMAIN call.tree
        /\ {"b.py", "b/__init__.py"} \cap DOMAIN call.tree = {}
        /\ \E e \in Entries(call) :
              /\ e.path = "pkg/c.py"
              /\ e.imports = <<"b">>
              /\ "os" \in RawImports(Parse(call.tree[e.path]))
              /\ e.imported_names # <<>>

\* the positions, in the result map's order, of the files whose base name is m.py
BasenameMatches(deps, m) == {i \in 1..Len(deps) : Basename(deps[i].path) = m \o ".py"}

\* the files the imports of one entry point at: for each import, the first match
FirstMatches(deps, data) ==
    {deps[i].path : i \in {i \in 1..Len(deps) :
        \E m \in Range(data.imports) :
            i \in BasenameMatches(deps, m) /\ \A k \in BasenameMatches(deps, m) : i <= k}}

\* C11: building the graph does not fail, and for each import m of a file an
\* imports edge goes to the first file, in the result map's order, whose base
\* name is m.py, and to no other file; an import no file matches gives no edge.
C11_ImportEdgeToFirstBasenameMatch ==
    GraphDone =>
        /\ graph.state = "built"
        /\ \A i \in 1..Len(graph.dependencies) :
              LET data == graph.dependencies[i]
              IN  {e.to : e \in {e \in ImportsEdges : e.from = data.path}}
                      = FirstMatches(graph.dependencies, data)

\* the class definitions of each file text, in ast.walk order
ClassNodes ==
    [text \in UNION {Options[p] : p \in Paths} |->
        IF Parse(text) = SyntaxError THEN <<>>
        ELSE SelectSeq(AstWalk(Parse(text)), LAMBDA n : n.type = "ClassDef")]

\* the function definitions that are direct children of a class body
DirectDefs(node) == {n \in Range(node.body) : n.type = "FunctionDef"}

MethodNames(class) == {m.name : m \in Range(class.methods)}

\* C12: in every analysed file, every method in a class's methods list is also
\* in the file's functions list with the same name and parameter names, and
\* the methods of a nested class are listed under the nested class only, not
\* under the class that encloses it.
C12_MethodsAreFunctionsToo ==
    \A call \in Calls : \A e \in Entries(call) :
        LET nodes == ClassNodes[call.tree[e.path]]
        IN  /\ \A c \in Range(e.classes) : \A m \in Range(c.methods) :
                  \E f \in Range(e.functions) : f.name = m.name /\ f.args = m.args
            /\ Len(e.classes) = Len(nodes)
            /\ \A i \in 1..Len(nodes) :
                  /\ e.classes[i].name = nodes[i].name
                  /\ \A d \in DirectDefs(nodes[i]) : d.name \in MethodNames(e.classes[i])
                  /\ \A j \in 1..Len(nodes) : nodes[j] \in Range(nodes[i].body) =>
                        \A d \in DirectDefs(nodes[j]) :
                            /\ d.name \in MethodNames(e.classes[j])
                            /\ d.name \in MethodNames(e.classes[i]) =>
                                  \E own \in DirectDefs(nodes[i]) : own.name = d.name

\* a file with a class nested in a class, each with a method of its own
C12_Witness ==
    \E call \in Calls : \E e \in Entries(call) :
        /\ e.path = "pkg/b.py"
        /\ e.classes = <<[name |-> "Outer", methods |-> <<[name |-> "om", args |-> <<"self", "x">>]>>],
                         [name |-> "Inner", methods |-> <<[name |-> "im", args |-> <<"self">>]>>]>>
        /\ {f.name : f \in Range(e.functions)} = {"om", "im"}

====
